---- MODULE Spec2Model ----
(***************************************************************************)
(* Model of src/backend/cdb/identity.c: the process-wide SegmentIdentity   *)
(* singleton (role, function list, ProcessIdentity) and the text codec of  *)
(* ProcessIdentity (SerializeProcessIdentity / DeserializeProcessIdentity).*)
(*                                                                         *)
(* A C string is a sequence of one-character strings; the terminating NUL  *)
(* is not stored, it is what At() returns at index Len(str) + 1.           *)
(***************************************************************************)
EXTENDS Integers, Sequences, FiniteSets, TLC

VARIABLES
    SegmentId,   \* static SegmentIdentity SegmentId: [role, function, pid]
    status,      \* "running", "fatal" (elog(FATAL)) or "aborted" (Assert)
    cassert,     \* build option USE_ASSERT_CHECKING: Assert() is compiled in
    msg,         \* value returned by the last SerializeProcessIdentity
    msg_len,     \* the caller's int that SerializeProcessIdentity fills
    sent,        \* the ProcessIdentity the last SerializeProcessIdentity read
    call         \* the last call: operation, arguments, boolean result

vars == <<SegmentId, status, cassert, msg, msg_len, sent, call>>

-----------------------------------------------------------------------------
(* Bounds of the model                                                     *)

MaxVal == 1
MaxTrail == 2

-----------------------------------------------------------------------------
(* C strings                                                               *)

NUL == "NUL"
OOB == "OOB"
NULL == <<"NULL">>

\* *(str + p - 1): the character at 1-based position p, the terminator right
\* after the last character.  A position beyond the terminator is outside the
\* object; the decoder below is checked never to read there.
At(str, p) ==
    IF p >= 1 /\ p <= Len(str) THEN str[p]
    ELSE IF p = Len(str) + 1 THEN NUL
    ELSE OOB

strlen(str) == Len(str)

Min(S) == CHOOSE m \in S : \A n \in S : m <= n

MaxOf(a, b) == IF a >= b THEN a ELSE b

\* Fault variant of strcmp: compares only as many characters as the shorter
\* string has, so a proper prefix compares equal.
strcmp_Prefix(a, b) ==
    LET n == IF Len(a) <= Len(b) THEN Len(a) ELSE Len(b)
    IN  IF \A i \in 1..n : At(a, i) = At(b, i) THEN 0 ELSE 1

\* strcmp(a, b): 0 when the two strings agree up to and including the
\* terminator, 1 otherwise (only == 0 is ever tested).
strcmp(a, b) ==
    LET n == (IF Len(a) <= Len(b) THEN Len(a) ELSE Len(b)) + 1
    IN  IF \A i \in 1..n : At(a, i) = At(b, i) THEN 0 ELSE 1

\* First index in 1..n at which str (from position p) and token differ,
\* 0 when the n characters agree.  strncmp stops reading there.
FirstDiff(str, p, token, n) ==
    LET bad == {i \in 1..n : At(str, p + i - 1) # At(token, i)}
    IN  IF bad = {} THEN 0 ELSE Min(bad)

\* strncmp(str + p - 1, token, n): 0 when equal over n characters.
strncmp(str, p, token, n) ==
    IF FirstDiff(str, p, token, n) = 0 THEN 0 ELSE 1

\* Highest position strncmp reads.
strncmp_hi(str, p, token, n) ==
    LET d == FirstDiff(str, p, token, n)
    IN  p + (IF d = 0 THEN n ELSE d) - 1

DigitChars == <<"0", "1", "2", "3", "4", "5", "6", "7", "8", "9">>

isdigit(c) == \E d \in 1..10 : DigitChars[d] = c

DigitVal(c) == (CHOOSE d \in 1..10 : DigitChars[d] = c) - 1

VT == "VT"

isspace(c) == c \in {" ", "\t", "\n", "\r", "\f", VT}

-----------------------------------------------------------------------------
(* The serialization tokens                                                *)

PI_SER_START_TOKEN ==
    <<"P","r","o","c","e","s","s","I","d","e","n","t","i","t","y","_",
      "B","e","g","i","n","_">>
PI_SER_SLICE_TOKEN == <<"s","l","i","c","e","_">>
PI_SER_IDX_TOKEN == <<"i","d","x","_">>
PI_SER_GANG_TOKEN == <<"g","a","n","g","_">>
PI_SER_WRITER_TOKEN == <<"w","r","i","t","e","r","_">>
PI_SER_CMD_TOKEN == <<"c","m","d","_">>
PI_SER_END_TOKEN ==
    <<"E","n","d","_","P","r","o","c","e","s","s","I","d","e","n","t","i",
      "t","y">>

-----------------------------------------------------------------------------
(* SerializeProcessIdentity                                                *)

RECURSIVE FormatNat(_)
\* The digits "%d" prints for a non-negative value, most significant first.
FormatNat(n) ==
    IF n < 10 THEN <<DigitChars[n + 1]>>
    ELSE FormatNat(n \div 10) \o <<DigitChars[(n % 10) + 1]>>

\* Fault variant of FormatInt: the sign is dropped.
FormatInt_NoSign(n) == IF n < 0 THEN FormatNat(-n) ELSE FormatNat(n)

\* "%d"
FormatInt(n) == IF n < 0 THEN <<"-">> \o FormatNat(-n) ELSE FormatNat(n)

\* appendStringInfo(&str, token "%d" "_", val)
put_token_int(str, token, val) == str \o token \o FormatInt(val) \o <<"_">>

\* Fault variant of put_token_bool: the branches are exchanged.
put_token_bool_Swapped(str, token, val) ==
    str \o token \o (IF val THEN <<"f">> ELSE <<"t">>) \o <<"_">>

\* appendStringInfo(&str, token "%s" "_", val ? "t" : "f")
put_token_bool(str, token, val) ==
    str \o token \o (IF val THEN <<"t">> ELSE <<"f">>) \o <<"_">>

\* The function's result: [data, len, set] where set tells whether *msg_len
\* was written.
Serialize(id) ==
    IF ~id.init THEN [data |-> NULL, len |-> 0, set |-> FALSE]
    ELSE LET s0 == PI_SER_START_TOKEN
             s1 == put_token_int(s0, PI_SER_SLICE_TOKEN, id.slice_id)
             s2 == put_token_int(s1, PI_SER_IDX_TOKEN, id.id_in_slice)
             s3 == put_token_int(s2, PI_SER_GANG_TOKEN, id.gang_member_num)
             s4 == put_token_int(s3, PI_SER_CMD_TOKEN, id.command_count)
             s5 == put_token_bool(s4, PI_SER_WRITER_TOKEN, id.is_writer)
             s6 == s5 \o PI_SER_END_TOKEN
         IN  [data |-> s6, len |-> Len(s6), set |-> TRUE]

-----------------------------------------------------------------------------
(* DeserializeProcessIdentity                                              *)

RECURSIVE SkipSpace(_, _)
\* strtol skips leading white space.
SkipSpace(str, p) ==
    IF isspace(At(str, p)) THEN SkipSpace(str, p + 1) ELSE p

RECURSIVE DigitsEnd(_, _)
\* Position of the first character that is not a digit, from p on.
DigitsEnd(str, p) ==
    IF isdigit(At(str, p)) THEN DigitsEnd(str, p + 1) ELSE p

RECURSIVE DigitsValue(_, _, _, _)
\* Value of the digits str[p..e-1], accumulated left to right.
DigitsValue(str, p, e, acc) ==
    IF p >= e THEN acc
    ELSE DigitsValue(str, p + 1, e, acc * 10 + DigitVal(At(str, p)))

\* strtol(str + p - 1, &end, 10): white space, an optional sign, digits.
\* Without a digit no conversion happens: the value is 0 and end is the
\* start.  hi is the highest position read.  The inputs of this model hold
\* at most three digits, so the range check of strtol (LONG_MAX/LONG_MIN)
\* and the narrowing of long to int are never reached.
strtol(str, p) ==
    LET q == SkipSpace(str, p)
        c == At(str, q)
        d == IF c = "-" \/ c = "+" THEN q + 1 ELSE q
        e == DigitsEnd(str, d)
        v == DigitsValue(str, d, e, 0)
    IN  IF e = d THEN [val |-> 0, end |-> p, hi |-> e]
        ELSE [val |-> IF c = "-" THEN -v ELSE v, end |-> e, hi |-> e]

\* The parser state threaded through the macros: the target id, the position
\* p, the highest position read, and err once "goto error" was taken.
consume_token(st, str, token) ==
    IF st.err THEN st
    ELSE LET n == strlen(token)
             h == MaxOf(st.hi, strncmp_hi(str, st.p, token, n))
         IN  IF strncmp(str, st.p, token, n) # 0
             THEN [st EXCEPT !.hi = h, !.err = TRUE]
             ELSE [st EXCEPT !.hi = h, !.p = st.p + n]

consume_int(st, str, field) ==
    IF st.err THEN st
    ELSE LET r == strtol(str, st.p)
             id1 == [st.id EXCEPT ![field] = r.val]
             h == MaxOf(st.hi, r.hi)
         IN  IF st.p = r.end
             THEN [st EXCEPT !.id = id1, !.hi = h, !.err = TRUE]
             ELSE IF At(str, r.end) # "_"
             THEN [st EXCEPT !.id = id1, !.hi = h, !.p = r.end, !.err = TRUE]
             ELSE [st EXCEPT !.id = id1, !.hi = h, !.p = r.end + 1]

\* Fault variant of consume_bool: the separator is skipped without being
\* looked at.
consume_bool_NoSeparatorCheck(st, str, field) ==
    IF st.err THEN st
    ELSE LET c == At(str, st.p)
             h0 == MaxOf(st.hi, st.p)
         IN  IF c # "t" /\ c # "f"
             THEN [st EXCEPT !.hi = h0, !.err = TRUE]
             ELSE [st EXCEPT !.id = [st.id EXCEPT ![field] = (c = "t")],
                             !.hi = h0, !.p = st.p + 2]

consume_bool(st, str, field) ==
    IF st.err THEN st
    ELSE LET c == At(str, st.p)
             h0 == MaxOf(st.hi, st.p)
         IN  IF c # "t" /\ c # "f"
             THEN [st EXCEPT !.hi = h0, !.err = TRUE]
             ELSE LET id1 == [st.id EXCEPT ![field] = (c = "t")]
                      h1 == MaxOf(h0, st.p + 1)
                  IN  IF At(str, st.p + 1) # "_"
                      THEN [st EXCEPT !.id = id1, !.hi = h1, !.p = st.p + 1,
                                      !.err = TRUE]
                      ELSE [st EXCEPT !.id = id1, !.hi = h1, !.p = st.p + 2]

\* Statement k of the body of DeserializeProcessIdentity (lines 258-269),
\* applied to the parser state st.
DeserializeStatement(k, st, str) ==
    CASE k = 1  -> consume_token(st, str, PI_SER_START_TOKEN)
      [] k = 2  -> consume_token(st, str, PI_SER_SLICE_TOKEN)
      [] k = 3  -> consume_int(st, str, "slice_id")
      [] k = 4  -> consume_token(st, str, PI_SER_IDX_TOKEN)
      [] k = 5  -> consume_int(st, str, "id_in_slice")
      [] k = 6  -> consume_token(st, str, PI_SER_GANG_TOKEN)
      [] k = 7  -> consume_int(st, str, "gang_member_num")
      [] k = 8  -> consume_token(st, str, PI_SER_CMD_TOKEN)
      [] k = 9  -> consume_int(st, str, "command_count")
      [] k = 10 -> consume_token(st, str, PI_SER_WRITER_TOKEN)
      [] k = 11 -> consume_bool(st, str, "is_writer")
      [] k = 12 -> consume_token(st, str, PI_SER_END_TOKEN)

RECURSIVE DeserializeFrom(_, _, _)
\* The statements k .. 12 run in sequence; S is the singleton set holding the
\* parser state before statement k, the result the one holding the last.
DeserializeFrom(k, S, str) ==
    IF k > 12 THEN S
    ELSE DeserializeFrom(k + 1, {DeserializeStatement(k, st, str) : st \in S},
                         str)

\* The parser state of line 222-223: init cleared, p at the start.
DeserializeStart(id) ==
    [id |-> [id EXCEPT !.init = FALSE], p |-> 1, hi |-> 0, err |-> FALSE]

\* Fault variant of DeserializeProcessIdentity: the end token must be
\* followed by the terminator.
DeserializeProcessIdentity_NoTrailing(id, str) ==
    CHOOSE r \in {[ret |-> ~st.err /\ At(str, st.p) = NUL, id |-> st.id,
                   hi |-> IF st.err THEN st.hi ELSE MaxOf(st.hi, st.p)]
                    : st \in DeserializeFrom(1, {DeserializeStart(id)}, str)}
        : TRUE

\* Result [ret, id, hi]: the return value, *id afterwards, and the highest
\* position of str that was read.
DeserializeProcessIdentity(id, str) ==
    CHOOSE r \in {[ret |-> ~st.err, id |-> st.id, hi |-> st.hi]
                    : st \in DeserializeFrom(1, {DeserializeStart(id)}, str)}
        : TRUE

-----------------------------------------------------------------------------
(* Segment role and function list                                          *)

SEGMENT_ROLE_INVALID == "SEGMENT_ROLE_INVALID"
SEGMENT_ROLE_INITDB == "SEGMENT_ROLE_INITDB"
SEGMENT_ROLE_MASTER == "SEGMENT_ROLE_MASTER"
SEGMENT_ROLE_STANDBY == "SEGMENT_ROLE_STANDBY"
SEGMENT_ROLE_SEGMENT == "SEGMENT_ROLE_SEGMENT"
SEGMENT_ROLE_GTM == "SEGMENT_ROLE_GTM"
SEGMENT_ROLE_CATALOGSERVICE == "SEGMENT_ROLE_CATALOGSERVICE"
SEGMENT_ROLE_STANDALONE == "SEGMENT_ROLE_STANDALONE"

SegmentRole ==
    {SEGMENT_ROLE_INVALID, SEGMENT_ROLE_INITDB, SEGMENT_ROLE_MASTER,
     SEGMENT_ROLE_STANDBY, SEGMENT_ROLE_SEGMENT, SEGMENT_ROLE_GTM,
     SEGMENT_ROLE_CATALOGSERVICE, SEGMENT_ROLE_STANDALONE}

Str_segment == <<"s","e","g","m","e","n","t">>
Str_master == <<"m","a","s","t","e","r">>
Str_standby == <<"s","t","a","n","d","b","y">>
Str_gtm == <<"g","t","m">>
Str_catalogservice ==
    <<"c","a","t","a","l","o","g","s","e","r","v","i","c","e">>

\* MemSet(&segment->function, 0, ...), and the static zero initialisation
ZeroFunction ==
    [module_motion |-> FALSE, module_log_sync |-> FALSE,
     login_as_default |-> FALSE]

\* A zero-initialised ProcessIdentity
ZeroPid ==
    [init |-> FALSE, slice_id |-> 0, id_in_slice |-> 0, gang_member_num |-> 0,
     command_count |-> 0, is_writer |-> FALSE]

\* Result [fatal, segment]: fatal when elog(FATAL) ends the process before
\* segment->role is assigned.  bootstrap is IsBootstrapProcessingMode().
SetSegmentRole(name, bootstrap, segment) ==
    LET role ==
            IF bootstrap THEN SEGMENT_ROLE_INITDB
            ELSE IF strcmp(Str_segment, name) = 0 THEN SEGMENT_ROLE_SEGMENT
            ELSE IF strcmp(Str_master, name) = 0 THEN SEGMENT_ROLE_MASTER
            ELSE IF strcmp(Str_standby, name) = 0 THEN SEGMENT_ROLE_STANDBY
            ELSE IF strcmp(Str_gtm, name) = 0 THEN SEGMENT_ROLE_GTM
            ELSE IF strcmp(Str_catalogservice, name) = 0
                 THEN SEGMENT_ROLE_CATALOGSERVICE
            ELSE SEGMENT_ROLE_INVALID
    IN  IF role = SEGMENT_ROLE_INVALID
        THEN [fatal |-> TRUE, segment |-> segment]
        ELSE [fatal |-> FALSE, segment |-> [segment EXCEPT !.role = role]]

\* Result [assert, segment]: assert when the default branch's Assert(false)
\* is reached.
SetupSegmentFunction(segment) ==
    LET s0 == [segment EXCEPT !.function = ZeroFunction]
    IN  IF s0.role = SEGMENT_ROLE_INITDB
        THEN [assert |-> FALSE, segment |-> s0]
        ELSE IF s0.role = SEGMENT_ROLE_MASTER
        THEN [assert |-> FALSE,
              segment |-> [s0 EXCEPT !.function.module_motion = TRUE]]
        ELSE IF s0.role = SEGMENT_ROLE_STANDBY
        THEN [assert |-> FALSE,
              segment |-> [s0 EXCEPT !.function.module_log_sync = TRUE]]
        ELSE IF s0.role = SEGMENT_ROLE_SEGMENT
        THEN [assert |-> FALSE,
              segment |-> [s0 EXCEPT !.function.login_as_default = TRUE,
                                     !.function.module_motion = TRUE]]
        ELSE [assert |-> TRUE, segment |-> s0]

SetupSegmentName(segment) == segment

UnsetProcessIdentity(segment) == [segment EXCEPT !.pid.init = FALSE]

\* Assert(id->init): TRUE when the assertion fails.
GenerateProcessIdentityLabel(id) == ~id.init

IsOnMaster == SegmentId.role = SEGMENT_ROLE_MASTER
AmIMaster == SegmentId.role = SEGMENT_ROLE_MASTER
\* Fault variant of AmIStandby: compares with the wrong constant.
AmIStandby_WrongRole == SegmentId.role = SEGMENT_ROLE_MASTER
AmIStandby == SegmentId.role = SEGMENT_ROLE_STANDBY
AmISegment == SegmentId.role = SEGMENT_ROLE_SEGMENT
AmIGtm == SegmentId.role = SEGMENT_ROLE_GTM
AmICatalogService == SegmentId.role = SEGMENT_ROLE_CATALOGSERVICE

-----------------------------------------------------------------------------
(* The operations                                                          *)

NoCall ==
    [op |-> "none", str |-> <<>>, bootstrap |-> FALSE, ret |-> FALSE,
     hi |-> 0]

Init ==
    /\ SegmentId = [role |-> SEGMENT_ROLE_INVALID, function |-> ZeroFunction,
                    pid |-> ZeroPid]
    /\ status = "running"
    /\ cassert \in BOOLEAN
    /\ msg = NULL
    /\ msg_len = 0
    /\ sent = ZeroPid
    /\ call = NoCall

SetSegmentIdentity(name, bootstrap) ==
    /\ status = "running"
    /\ LET r == SetSegmentRole(name, bootstrap, SegmentId)
           f == SetupSegmentFunction(SetupSegmentName(r.segment))
       IN  IF r.fatal
           THEN /\ status' = "fatal"
                /\ SegmentId' = SegmentId
           ELSE IF f.assert /\ cassert
           THEN /\ status' = "aborted"
                /\ SegmentId' = f.segment
           ELSE /\ status' = "running"
                /\ SegmentId' = UnsetProcessIdentity(f.segment)
    /\ call' = [NoCall EXCEPT !.op = "SetSegmentIdentity", !.str = name,
                              !.bootstrap = bootstrap]
    /\ UNCHANGED <<cassert, msg, msg_len, sent>>

SerializeProcessIdentity(id) ==
    /\ status = "running"
    /\ LET r == Serialize(id)
       IN  /\ msg' = r.data
           /\ msg_len' = IF r.set THEN r.len ELSE msg_len
    /\ sent' = id
    /\ call' = [NoCall EXCEPT !.op = "SerializeProcessIdentity"]
    /\ UNCHANGED <<SegmentId, status, cassert>>

SetupProcessIdentity(str) ==
    /\ status = "running"
    /\ \E d \in {DeserializeProcessIdentity(SegmentId.pid, str)} :
         \E pid1 \in {[d.id EXCEPT !.init = TRUE]} :
           /\ SegmentId' = [SegmentId EXCEPT !.pid = pid1]
           /\ status' = IF GenerateProcessIdentityLabel(pid1) /\ cassert
                        THEN "aborted" ELSE "running"
           /\ call' = [NoCall EXCEPT !.op = "SetupProcessIdentity",
                                     !.str = str, !.ret = d.ret, !.hi = d.hi]
    /\ UNCHANGED <<cassert, msg, msg_len, sent>>

-----------------------------------------------------------------------------
(* Inputs                                                                  *)

\* A token assembled from the texts of its five fields.
MkToken(a, b, c, d, w) ==
    PI_SER_START_TOKEN \o PI_SER_SLICE_TOKEN \o a \o <<"_">>
        \o PI_SER_IDX_TOKEN \o b \o <<"_">>
        \o PI_SER_GANG_TOKEN \o c \o <<"_">>
        \o PI_SER_CMD_TOKEN \o d \o <<"_">>
        \o PI_SER_WRITER_TOKEN \o w \o <<"_">> \o PI_SER_END_TOKEN

ExampleToken == MkToken(<<"2">>, <<"0">>, <<"3">>, <<"7">>, <<"t">>)

ExampleId ==
    [init |-> TRUE, slice_id |-> 2, id_in_slice |-> 0, gang_member_num |-> 3,
     command_count |-> 7, is_writer |-> TRUE]

NegToken == MkToken(<<"-","1">>, <<"1","2">>, <<"0">>, <<"-","1","2">>, <<"f">>)

Vals == {v * m : v \in (-MaxVal)..MaxVal, m \in {1, 12}}

Ids ==
    {ExampleId} \cup
    [init : {TRUE}, slice_id : Vals, id_in_slice : Vals,
     gang_member_num : Vals, command_count : Vals, is_writer : BOOLEAN]

RoleNames ==
    {Str_segment, Str_master, Str_standby, Str_gtm, Str_catalogservice,
     <<>>, <<"M","a","s","t","e","r">>, <<"g","t">>,
     <<"s","e","g","m","e","n","t","s">>, <<"i","n","i","t","d","b">>}

\* Texts tried in the place of an integer field and of the writer field.
IntTexts ==
    {<<"5">>, <<"-","4">>, <<"+","5">>, <<" ","5">>, <<"\t","-","4">>,
     <<"0","5">>, <<"x">>, <<>>, <<"-">>, <<"5","x">>, <<"5"," ">>,
     <<"-"," ","4">>, <<"1","0","7">>}

BoolTexts == {<<"t">>, <<"f">>, <<"x">>, <<"T">>, <<>>, <<"t","t">>, <<"1">>}

FieldVariants ==
    {MkToken(a, <<"0">>, <<"3">>, <<"7">>, <<"t">>) : a \in IntTexts} \cup
    {MkToken(<<"2">>, a, <<"3">>, <<"7">>, <<"t">>) : a \in IntTexts} \cup
    {MkToken(<<"2">>, <<"0">>, a, <<"7">>, <<"t">>) : a \in IntTexts} \cup
    {MkToken(<<"2">>, <<"0">>, <<"3">>, a, <<"t">>) : a \in IntTexts} \cup
    {MkToken(<<"2">>, <<"0">>, <<"3">>, <<"7">>, w) : w \in BoolTexts}

Prefixes(t) == {SubSeq(t, 1, k) : k \in 0..(Len(t) - 1)}

SubstChars == {"x", "_", " ", "-", "0", "E"}

Substitutions(t) ==
    {[t EXCEPT ![i] = c] : i \in 1..Len(t), c \in SubstChars}

Deletions(t) ==
    {SubSeq(t, 1, i - 1) \o SubSeq(t, i + 1, Len(t)) : i \in 1..Len(t)}

TrailChars == {"_", "x", "0", " "}

Suffixes == UNION {[1..k -> TrailChars] : k \in 0..MaxTrail}

BaseTokens ==
    {ExampleToken, NegToken,
     MkToken(<<"+","5">>, <<" ","5">>, <<"0","5">>, <<"1","0","7">>, <<"f">>)}

Trailing == {t \o s : t \in BaseTokens, s \in Suffixes}

\* The strings handed to the decoder in the codec specification.
DecodeInputs ==
    FieldVariants \cup Prefixes(ExampleToken) \cup Prefixes(NegToken)
        \cup Substitutions(ExampleToken) \cup Deletions(NegToken)
        \cup Trailing

\* The strings handed to SetupProcessIdentity in the process specification.
LaunchStrings ==
    {<<>>, ExampleToken, NegToken,
     MkToken(<<"-","1">>, <<"x">>, <<"3">>, <<"7">>, <<"t">>),
     MkToken(<<"-","1">>, <<"1","2">>, <<"0">>, <<"-","1","2">>, <<"x">>)}

-----------------------------------------------------------------------------
(* The process: any sequence of calls                                      *)

Next ==
    \/ \E name \in RoleNames, bootstrap \in BOOLEAN :
           SetSegmentIdentity(name, bootstrap)
    \/ \E str \in LaunchStrings : SetupProcessIdentity(str)
    \/ msg # NULL /\ SetupProcessIdentity(msg)
    \/ SerializeProcessIdentity(SegmentId.pid)

Spec == Init /\ [][Next]_vars

(* The codec: one encode, or one decode, or an encode followed by the     *)
(* decode of its result, from the initial state                           *)

CodecNext ==
    \/ call.op = "none" /\ \E id \in Ids \cup {ZeroPid} :
           SerializeProcessIdentity(id)
    \/ call.op = "SerializeProcessIdentity" /\ msg # NULL
           /\ SetupProcessIdentity(msg)
    \/ call.op = "none" /\ \E str \in DecodeInputs : SetupProcessIdentity(str)

CodecSpec == Init /\ [][CodecNext]_vars

-----------------------------------------------------------------------------
(* Reference definitions used by the properties                            *)

\* The five payload fields of a ProcessIdentity.
Fields(id) ==
    <<id.slice_id, id.id_in_slice, id.gang_member_num, id.command_count,
      id.is_writer>>

RefDigits == {"0", "1", "2", "3", "4", "5", "6", "7", "8", "9"}

Abs(n) == IF n < 0 THEN -n ELSE n

RECURSIVE Pow10(_)
Pow10(k) == IF k = 0 THEN 1 ELSE 10 * Pow10(k - 1)

RefDigitValue(c) ==
    CASE c = "0" -> 0 [] c = "1" -> 1 [] c = "2" -> 2 [] c = "3" -> 3
      [] c = "4" -> 4 [] c = "5" -> 5 [] c = "6" -> 6 [] c = "7" -> 7
      [] c = "8" -> 8 [] c = "9" -> 9

RECURSIVE RefValue(_, _)
\* Positional value of the digit string t, summed from the right: digit i
\* weighs 10^(Len(t) - i).
RefValue(t, i) ==
    IF i > Len(t) THEN 0
    ELSE RefDigitValue(t[i]) * Pow10(Len(t) - i) + RefValue(t, i + 1)

\* Number of characters of the canonical decimal text of n.
DecLen(n) ==
    (IF n < 0 THEN 1 ELSE 0) +
    (IF Abs(n) < 10 THEN 1 ELSE IF Abs(n) < 100 THEN 2
     ELSE IF Abs(n) < 1000 THEN 3 ELSE 4)

\* t is the canonical signed decimal text of n: a '-' exactly when n < 0,
\* at least one digit, no leading zero, and the digits' value is |n|.
IsDecimalOf(t, n) ==
    LET digs == IF n < 0 THEN SubSeq(t, 2, Len(t)) ELSE t
    IN  /\ Len(t) = DecLen(n)
        /\ n < 0 => t[1] = "-"
        /\ Len(digs) >= 1
        /\ \A i \in 1..Len(digs) : digs[i] \in RefDigits
        /\ Len(digs) > 1 => digs[1] # "0"
        /\ RefValue(digs, 1) = Abs(n)

\* s is exactly the grammar's text for id: the literals in their fixed
\* order around the canonical decimal texts of the four integers and the
\* 't' or 'f' of the writer flag.
IsEncodingOf(s, id) ==
    LET pa == Len(PI_SER_START_TOKEN) + Len(PI_SER_SLICE_TOKEN)
        a  == SubSeq(s, pa + 1, pa + DecLen(id.slice_id))
        pb == pa + Len(a) + 1 + Len(PI_SER_IDX_TOKEN)
        b  == SubSeq(s, pb + 1, pb + DecLen(id.id_in_slice))
        pc == pb + Len(b) + 1 + Len(PI_SER_GANG_TOKEN)
        c  == SubSeq(s, pc + 1, pc + DecLen(id.gang_member_num))
        pd == pc + Len(c) + 1 + Len(PI_SER_CMD_TOKEN)
        d  == SubSeq(s, pd + 1, pd + DecLen(id.command_count))
        w  == IF id.is_writer THEN <<"t">> ELSE <<"f">>
    IN  /\ s # NULL
        /\ Len(s) >= pd + Len(d)
        /\ IsDecimalOf(a, id.slice_id)
        /\ IsDecimalOf(b, id.id_in_slice)
        /\ IsDecimalOf(c, id.gang_member_num)
        /\ IsDecimalOf(d, id.command_count)
        /\ s = MkToken(a, b, c, d, w)

\* Recogniser of the token grammar, as a prefix of s.  Each step returns the
\* position after what it matched, 0 when it does not match.
RefLit(s, p, lit) ==
    IF p = 0 THEN 0
    ELSE IF p + Len(lit) - 1 <= Len(s) /\ SubSeq(s, p, p + Len(lit) - 1) = lit
    THEN p + Len(lit)
    ELSE 0

\* A well-formed signed decimal: an optional sign and one or more digits.
RefInt(s, p) ==
    IF p = 0 THEN 0
    ELSE LET q == IF At(s, p) \in {"-", "+"} THEN p + 1 ELSE p
             e == Min({i \in q..(Len(s) + 1) : At(s, i) \notin RefDigits})
         IN  IF e = q THEN 0 ELSE e

RefBool(s, p) ==
    IF p = 0 THEN 0 ELSE IF At(s, p) \in {"t", "f"} THEN p + 1 ELSE 0

MatchesGrammar(s) ==
    LET p1  == RefLit(s, 1, PI_SER_START_TOKEN)
        p2  == RefLit(s, p1, PI_SER_SLICE_TOKEN)
        p3  == RefLit(s, RefInt(s, p2), <<"_">>)
        p4  == RefLit(s, p3, PI_SER_IDX_TOKEN)
        p5  == RefLit(s, RefInt(s, p4), <<"_">>)
        p6  == RefLit(s, p5, PI_SER_GANG_TOKEN)
        p7  == RefLit(s, RefInt(s, p6), <<"_">>)
        p8  == RefLit(s, p7, PI_SER_CMD_TOKEN)
        p9  == RefLit(s, RefInt(s, p8), <<"_">>)
        p10 == RefLit(s, p9, PI_SER_WRITER_TOKEN)
        p11 == RefLit(s, RefBool(s, p10), <<"_">>)
        p12 == RefLit(s, p11, PI_SER_END_TOKEN)
    IN  p12 # 0

SixRoles ==
    {SEGMENT_ROLE_INITDB, SEGMENT_ROLE_MASTER, SEGMENT_ROLE_STANDBY,
     SEGMENT_ROLE_SEGMENT, SEGMENT_ROLE_GTM, SEGMENT_ROLE_CATALOGSERVICE}

\* The capability table: (module_motion, module_log_sync, login_as_default).
RefFunction(role) ==
    CASE role = SEGMENT_ROLE_INITDB -> <<FALSE, FALSE, FALSE>>
      [] role = SEGMENT_ROLE_MASTER -> <<TRUE, FALSE, FALSE>>
      [] role = SEGMENT_ROLE_STANDBY -> <<FALSE, TRUE, FALSE>>
      [] role = SEGMENT_ROLE_SEGMENT -> <<TRUE, FALSE, TRUE>>
      [] role = SEGMENT_ROLE_GTM -> <<FALSE, FALSE, FALSE>>
      [] role = SEGMENT_ROLE_CATALOGSERVICE -> <<FALSE, FALSE, FALSE>>

\* The role name table of the role resolver.
RefRoleOf(name) ==
    CASE name = <<"m","a","s","t","e","r">> -> SEGMENT_ROLE_MASTER
      [] name = <<"s","e","g","m","e","n","t">> -> SEGMENT_ROLE_SEGMENT
      [] name = <<"s","t","a","n","d","b","y">> -> SEGMENT_ROLE_STANDBY
      [] name = <<"g","t","m">> -> SEGMENT_ROLE_GTM
      [] name = <<"c","a","t","a","l","o","g","s","e","r","v","i","c","e">>
           -> SEGMENT_ROLE_CATALOGSERVICE
      [] OTHER -> SEGMENT_ROLE_INVALID

-----------------------------------------------------------------------------
(* Properties                                                              *)

\* C1: whenever SetupProcessIdentity(str) has returned false, the
\* process-wide ProcessIdentity has init = false, so that serializing it
\* gives the 'no value' result.
C1_FailedSetupLeavesUninitialized ==
    (call.op = "SetupProcessIdentity" /\ ~call.ret)
        => /\ ~SegmentId.pid.init
           /\ Serialize(SegmentId.pid).data = NULL

\* C2: round trip.  Decoding with SetupProcessIdentity the string that
\* SerializeProcessIdentity produced for an initialized x returns success and
\* leaves a ProcessIdentity with the five fields of x and init = true.
C2_RoundTrip ==
    (call.op = "SetupProcessIdentity" /\ msg # NULL /\ call.str = msg)
        => /\ call.ret
           /\ SegmentId.pid.init
           /\ Fields(SegmentId.pid) = Fields(sent)

C2_Witness ==
    /\ call.op = "SetupProcessIdentity"
    /\ msg # NULL /\ call.str = msg
    /\ sent.init
    /\ sent.slice_id = -12 /\ sent.id_in_slice = 0 /\ sent.command_count = 1
    /\ sent.is_writer
    /\ call.ret

\* C3: a SetSegmentIdentity step resolves the role by the reference mapping:
\* in bootstrap mode the role is INITDB whatever the name and the fatal path
\* is not taken; otherwise the five exact names give their roles without the
\* fatal path, and any other name takes the fatal path and stores no role.
C3_RoleResolution ==
    [][call'.op = "SetSegmentIdentity" =>
         IF call'.bootstrap
         THEN SegmentId'.role = SEGMENT_ROLE_INITDB /\ status' # "fatal"
         ELSE IF RefRoleOf(call'.str) # SEGMENT_ROLE_INVALID
         THEN SegmentId'.role = RefRoleOf(call'.str) /\ status' # "fatal"
         ELSE status' = "fatal" /\ SegmentId'.role = SegmentId.role]_vars

C3_Witness ==
    /\ call.op = "SetSegmentIdentity"
    /\ ~call.bootstrap
    /\ call.str = <<"M","a","s","t","e","r">>
    /\ status = "fatal"
    /\ SegmentId.role = SEGMENT_ROLE_INVALID

\* C4: for each of the six roles that role resolution produces,
\* SetSegmentIdentity completes without an assertion failure and the function
\* list is the row of the capability table.
C4_CapabilityTotal ==
    (call.op = "SetSegmentIdentity" /\ status # "fatal")
        => /\ status = "running"
           /\ SegmentId.role \in SixRoles
           /\ <<SegmentId.function.module_motion,
                SegmentId.function.module_log_sync,
                SegmentId.function.login_as_default>>
                  = RefFunction(SegmentId.role)

\* C5: decode is strict: a string that does not start with a text of the
\* grammar (every literal at its place, every integer a well-formed signed
\* decimal followed by '_', the writer 't' or 'f' followed by '_') is
\* rejected.
C5_DecodeStrict ==
    (call.op = "SetupProcessIdentity" /\ ~MatchesGrammar(call.str))
        => ~call.ret

\* C6: a SerializeProcessIdentity step changes nothing but its results; for
\* init = false it returns NULL and leaves *msg_len alone; for init = true it
\* returns exactly the grammar's text of the identity and stores that
\* string's length; the identity (2,0,3,7,true) gives the documented text.
C6_SerializeIsReference ==
    [][call'.op = "SerializeProcessIdentity" =>
         /\ SegmentId' = SegmentId
         /\ status' = status
         /\ IF ~sent'.init
            THEN msg' = NULL /\ msg_len' = msg_len
            ELSE /\ IsEncodingOf(msg', sent')
                 /\ msg_len' = Len(msg')
         /\ Fields(sent') = <<2, 0, 3, 7, TRUE>> /\ sent'.init
              => msg' = ExampleToken]_vars

C6_Witness ==
    /\ call.op = "SerializeProcessIdentity"
    /\ sent.init
    /\ Fields(sent) = <<-12, 12, -1, 0, FALSE>>
    /\ msg = MkToken(<<"-","1","2">>, <<"1","2">>, <<"-","1">>, <<"0">>,
                     <<"f">>)
    /\ msg_len = 81

\* C7: at most one of AmIMaster, AmIStandby, AmISegment, AmIGtm and
\* AmICatalogService is true, and none is when the role is INITDB or INVALID.
C7_AtMostOneRole ==
    LET answers == <<AmIMaster, AmIStandby, AmISegment, AmIGtm,
                     AmICatalogService>>
    IN  /\ Cardinality({i \in 1..5 : answers[i]}) <= 1
        /\ SegmentId.role \in {SEGMENT_ROLE_INITDB, SEGMENT_ROLE_INVALID}
             => \A i \in 1..5 : ~answers[i]

C7_Witness ==
    /\ call.op = "SetupProcessIdentity"
    /\ SegmentId.role = SEGMENT_ROLE_STANDBY
    /\ AmIStandby /\ ~AmIMaster

\* C8: SetupProcessIdentity returns success or failure on every string, never
\* reads beyond the string's terminator, and fails no assertion.
C8_DecodeNeverCrashes ==
    call.op = "SetupProcessIdentity"
        => /\ call.ret \in BOOLEAN
           /\ call.hi <= Len(call.str) + 1
           /\ status = "running"

C8_Witness ==
    /\ call.op = "SetupProcessIdentity"
    /\ cassert
    /\ call.str \in Prefixes(ExampleToken)
    /\ Len(call.str) >= Len(ExampleToken) - Len(PI_SER_END_TOKEN) - 1
    /\ call.hi = Len(call.str) + 1
    /\ ~call.ret
    /\ status = "running"

\* C9: a SetupProcessIdentity step is all-or-nothing: on success the five
\* fields hold the token's values and init is true; on failure the five
\* fields are those from before the call.
C9_AllOrNothing ==
    [][call'.op = "SetupProcessIdentity" =>
         IF call'.ret
         THEN SegmentId'.pid.init /\ IsEncodingOf(call'.str, SegmentId'.pid)
         ELSE Fields(SegmentId'.pid) = Fields(SegmentId.pid)]_vars

\* C10: characters after the end token are ignored: decoding a valid token
\* followed by any string succeeds and gives the five fields that decoding
\* the token alone gives.
C10_TrailingIgnored ==
    \A t \in BaseTokens, s \in Suffixes :
        (/\ call.op = "SetupProcessIdentity"
         /\ call.str = t \o s
         /\ DeserializeProcessIdentity(ZeroPid, t).ret)
            => /\ call.ret
               /\ Fields(SegmentId.pid)
                    = Fields(DeserializeProcessIdentity(ZeroPid, t).id)

C10_Witness ==
    /\ call.op = "SetupProcessIdentity"
    /\ call.str = NegToken \o <<"x", "_">>
    /\ call.ret
    /\ Fields(SegmentId.pid) = <<-1, 12, 0, -12, FALSE>>

====
